---- MODULE Spec2Model ----
(***************************************************************************)
(* Course search index of uWindsorCourseSearchBot: the index lifecycle     *)
(* (main, Handler::reindex, Handler::fetch_course in src/src/main.rs) and  *)
(* the scrape-and-index pipeline (CourseIndex::open, CourseIndex::query,   *)
(* Scraper::scrape, Scraper::scrape_courses in src/src/uwin.rs).           *)
(***************************************************************************)
EXTENDS Integers, Sequences, FiniteSets, TLC

(***************************************************************************)
(* Bounds of the model.                                                    *)
(***************************************************************************)
\* spawned build threads that can exist at once (thread ids are reused)
MaxThreads == 2
\* index builds started over the life of the storage (generation counter)
MaxBuilds == 2
\* event-handler threads of the chat client that serve ~course commands
NumHandlers == 2
\* worker threads of the parallel iterator in scrape_courses
NumWorkers == 2
\* terms the portal lists, and courses it lists for each term
NumTerms == 2
NumCourses == 2
\* courses of one term in the largest index handed to a direct query
NumPool == 11
\* required elements a fetched detail page may lack
MaxMissing == 1

(***************************************************************************)
(* Text.  A string is a sequence of one-character strings.                 *)
(***************************************************************************)
\* the n of NgramTokenizer::new(3, 3, false)
NgramLen == 3
\* TopCollector::with_limit(10)
TopLimit == 10

\* LowerCaser filter
Lower(c) ==
    CASE c = "M" -> "m"
      [] c = "P" -> "p"
      [] OTHER -> c

LowerCase(s) == [i \in 1..Len(s) |-> Lower(s[i])]

\* NgramTokenizer::new(3, 3, false) followed by LowerCaser: every window of
\* three characters, at the position of its first character.
Ngrams(s) ==
    [i \in 1..(IF Len(s) >= NgramLen THEN Len(s) - NgramLen + 1 ELSE 0)
        |-> LowerCase(SubSeq(s, i, i + NgramLen - 1))]

\* characters that are not alphanumeric
Punct == {" ", "-", "+", ":", "\""}

\* the maximal runs of characters of s outside seps, in order
RECURSIVE Runs(_, _, _, _)
Runs(s, i, cur, seps) ==
    IF i > Len(s)
    THEN (IF cur = <<>> THEN <<>> ELSE <<cur>>)
    ELSE IF s[i] \notin seps
         THEN Runs(s, i + 1, Append(cur, s[i]), seps)
         ELSE (IF cur = <<>> THEN <<>> ELSE <<cur>>) \o Runs(s, i + 1, <<>>, seps)

\* the "default" tokenizer of a TEXT field: SimpleTokenizer (runs of
\* alphanumeric characters) followed by LowerCaser
Words(s) ==
    LET w == Runs(s, 1, <<>>, Punct)
    IN  [i \in 1..Len(w) |-> LowerCase(w[i])]

\* a phrase of tokens occurs in a token stream at consecutive positions
PhraseIn(phrase, stream) ==
    /\ Len(phrase) > 0
    /\ \E p \in 0..(Len(stream) - Len(phrase)) :
          \A k \in 1..Len(phrase) : stream[p + k] = phrase[k]

(***************************************************************************)
(* The portal's corpus: what a scrape that succeeds returns.               *)
(***************************************************************************)
TermCode(t) == IF t = 1 THEN "20185" ELSE "2019" \o ToString(t)

\* course code with the section number, whitespace and "-" removed
\* (uwin.rs:324-330); nine characters, the first seven are the activity code
CourseCode(c) ==
    <<"0", "3", "6", "0", "1", ToString((c \div 10) % 10), ToString(c % 10), "0", "1">>

CourseTitle(c) ==
    IF c % 2 = 1 THEN <<"M", "a", "t", "h">> ELSE <<"P", "r", "o", "o", "f", "s">>

CourseDescription(c) ==
    IF c % 2 = 1 THEN <<"s", "e", "t", "s", " ", "m", "a", "t", "h">>
                 ELSE <<"l", "o", "g", "i", "c">>

\* the (term, code, title, description) tuple indexed for one course
Doc(t, c) ==
    [term |-> TermCode(t), code |-> CourseCode(c),
     title |-> CourseTitle(c), description |-> CourseDescription(c)]

TermIds == 1..NumTerms
CourseIds == 1..NumCourses
TermDocs(t) == {Doc(t, c) : c \in CourseIds}
\* an index of the first n courses of the first term
PoolDocs(n) == {Doc(1, c) : c \in 1..n}
Corpus == UNION {TermDocs(t) : t \in TermIds}

(***************************************************************************)
(* State.                                                                  *)
(***************************************************************************)
VARIABLES
    disk,       \* the ./index directory: [st, gen, docs]
    slot,       \* the CourseIndex entry of the client's ShareMap: {} or {index}
    lock,       \* holder of the ShareMap mutex: 0 (free) or a handler id
    thr,        \* thread 0 is main; 1..MaxThreads are spawned build threads
    hs,         \* the event-handler threads
    last,       \* the outcome of the command that finished last
    log,        \* what reached the log / stderr
    committed,  \* generations whose index_writer.commit() returned Ok
    failed,     \* generations whose build failed on a basic scrape
    qIn,        \* inputs of a direct CourseIndex::query call
    qOut,       \* its result
    dIn,        \* what the portal answers to a direct Scraper::scrape_full call
    dOut        \* the progress and the result of that call

vars == <<disk, slot, lock, thr, hs, last, log, committed, failed, qIn, qOut, dIn, dOut>>
lvars == <<disk, slot, lock, thr, hs, last, log, committed, failed>>
\* the variables of the direct calls
qvars == <<qIn, qOut, dIn, dOut>>

Threads == 0..MaxThreads
Builders == 1..MaxThreads
Handlers == 1..NumHandlers

NoTasks == [c \in CourseIds |-> "none"]

\* a thread that is not running
IdleThread ==
    [pc |-> "unused", exists |-> FALSE, net |-> FALSE, term |-> 0,
     tasks |-> NoTasks, order |-> <<>>, saved |-> 0, err |-> 0,
     data |-> {}, idx |-> {}]

\* a thread entering CourseIndex::open
OpenThread == [IdleThread EXCEPT !.pc = "open"]

IdleHandler == [pc |-> "idle", idx |-> {}, hits |-> {}]

\* the outcome of a command: what the handler returned to message(), the
\* chat message it sent, whether a reindex request spawned a build, the error
\* index.query returned and whether the chat took the handler's message
NoOutcome ==
    [cmd |-> "none", ret |-> "none", reply |-> "none", started |-> FALSE,
     already |-> FALSE, qerr |-> "none", chat |-> TRUE]

AbsentDisk == [st |-> "absent", gen |-> 0, docs |-> {}]

\* pcs at which a thread is inside CourseIndex::open
OpenPcs == {"open", "scrape", "courselist", "fanout", "commit"}
\* a spawned build thread that has not finished
Active(t) == thr[t].pc # "unused"
Serving == thr[0].pc = "serving"
Alive == thr[0].pc # "dead"

\* error values: 0 is no error, a course id is the error scrape_basic returned
\* for that course, OtherError is any other failure
OtherError == -1

SetThread(t, r) == thr' = [thr EXCEPT ![t] = r]
Fail(t, e) == SetThread(t, [thr[t] EXCEPT !.pc = "err", !.err = e])

(***************************************************************************)
(* CourseIndex::open (uwin.rs:126-194), run by thread t.                   *)
(***************************************************************************)
\* path.is_dir() is true: Index::open_in_dir, no scraping
OpenExisting(t) ==
    /\ Alive
    /\ thr[t].pc = "open"
    /\ disk.st # "absent"
    /\ \E io \in BOOLEAN :
          IF io /\ disk.st \in {"meta", "committed"}
          THEN SetThread(t, [thr[t] EXCEPT !.pc = "ok", !.exists = TRUE,
                               !.idx = {[gen |-> disk.gen, docs |-> disk.docs]}])
          ELSE SetThread(t, [thr[t] EXCEPT !.pc = "err", !.exists = TRUE,
                               !.err = OtherError])
    /\ UNCHANGED <<disk, slot, lock, hs, last, log, committed, failed, qvars>>

\* path.is_dir() is false: fs::create_dir, Index::create_in_dir, index.writer
OpenCreate(t) ==
    /\ Alive
    /\ thr[t].pc = "open"
    /\ disk.st = "absent"
    /\ disk.gen < MaxBuilds
    /\ \E out \in {"mkdir_fail", "create_fail", "writer_fail", "ok"} :
          /\ disk' = CASE out = "mkdir_fail" -> disk
                       [] out = "create_fail" ->
                            [st |-> "dir", gen |-> disk.gen + 1, docs |-> {}]
                       [] OTHER ->
                            [st |-> "meta", gen |-> disk.gen + 1, docs |-> {}]
          /\ IF out = "ok"
             THEN SetThread(t, [thr[t] EXCEPT !.pc = "scrape"])
             ELSE Fail(t, OtherError)
    /\ UNCHANGED <<slot, lock, hs, last, log, committed, failed, qvars>>

\* Scraper::scrape (uwin.rs:250-262): the term list page
ScrapeTermList(t) ==
    /\ Alive
    /\ thr[t].pc = "scrape"
    /\ \E ok \in BOOLEAN :
          IF ok
          THEN SetThread(t, [thr[t] EXCEPT !.pc = "courselist", !.net = TRUE,
                               !.term = 1])
          ELSE SetThread(t, [thr[t] EXCEPT !.pc = "err", !.net = TRUE,
                               !.err = OtherError])
    /\ UNCHANGED <<disk, slot, lock, hs, last, log, committed, failed, qvars>>

\* Scraper::scrape_courses (uwin.rs:286-337): the course list of one term
ScrapeCourseList(t) ==
    /\ Alive
    /\ thr[t].pc = "courselist"
    /\ \E ok \in BOOLEAN :
          IF ok
          THEN SetThread(t, [thr[t] EXCEPT !.pc = "fanout",
                               !.tasks = [c \in CourseIds |-> "pending"],
                               !.order = <<>>, !.saved = 0])
          ELSE Fail(t, OtherError)
    /\ UNCHANGED <<disk, slot, lock, hs, last, log, committed, failed, qvars>>

Running(t) == {c \in CourseIds : thr[t].tasks[c] = "running"}

\* a worker of the parallel iterator takes the next code (uwin.rs:338-340)
TaskStart(t, c) ==
    /\ Alive
    /\ thr[t].pc = "fanout"
    /\ thr[t].tasks[c] = "pending"
    /\ Cardinality(Running(t)) < NumWorkers
    /\ SetThread(t, [thr[t] EXCEPT !.tasks[c] = "running"])
    /\ UNCHANGED <<disk, slot, lock, hs, last, log, committed, failed, qvars>>

\* a collector that loses the error of a failed task
SavedErrorDropped(old, c, ok) == {old}

\* the errors the collector can hold after a task has finished
\* (collect::<Result<Vec<_>, Error>>, uwin.rs:343): a success leaves it as it
\* is, the first error is stored, and when an error is already stored the
\* library may keep it or replace it with the new one
SavedError(old, c, ok) ==
    IF ok THEN {old} ELSE IF old = 0 THEN {c} ELSE {old, c}

\* scrape_basic of one code returns (uwin.rs:340-342)
TaskFinish(t, c, ok) ==
    /\ Alive
    /\ thr[t].pc = "fanout"
    /\ thr[t].tasks[c] = "running"
    /\ \E e \in SavedError(thr[t].saved, c, ok) :
          SetThread(t, [thr[t] EXCEPT !.tasks[c] = IF ok THEN "ok" ELSE "err",
                          !.order = Append(@, c),
                          !.saved = e])
    /\ UNCHANGED <<disk, slot, lock, hs, last, log, committed, failed, qvars>>

\* once an error is stored, the parallel iterator stops taking codes
TaskSkip(t, c) ==
    /\ Alive
    /\ thr[t].pc = "fanout"
    /\ thr[t].tasks[c] = "pending"
    /\ thr[t].saved # 0
    /\ SetThread(t, [thr[t] EXCEPT !.tasks[c] = "skipped"])
    /\ UNCHANGED <<disk, slot, lock, hs, last, log, committed, failed, qvars>>

\* the result of the collect of scrape_courses: 0 is Ok(all triples)
CollectResult(t) == thr[t].saved

\* the tuples scrape() has for a term whose scrape_courses returned Ok
ScrapedDocs(t) == {Doc(thr[t].term, c) : c \in {k \in CourseIds : thr[t].tasks[k] = "ok"}}

\* scrape_courses returns and Scraper::scrape goes on (uwin.rs:269-282, 343)
ScrapeCoursesDone(t) ==
    /\ Alive
    /\ thr[t].pc = "fanout"
    /\ \A c \in CourseIds : thr[t].tasks[c] \in {"ok", "err", "skipped"}
    /\ IF CollectResult(t) # 0
       THEN /\ Fail(t, CollectResult(t))
            /\ failed' = failed \cup {disk.gen}
       ELSE /\ \E name \in BOOLEAN :
                  IF ~name
                  THEN Fail(t, OtherError)
                  ELSE SetThread(t, [thr[t] EXCEPT
                           !.data = @ \cup ScrapedDocs(t),
                           !.tasks = NoTasks, !.order = <<>>,
                           !.pc = IF thr[t].term < NumTerms THEN "courselist" ELSE "commit",
                           !.term = IF thr[t].term < NumTerms THEN @ + 1 ELSE @])
            /\ UNCHANGED failed
    /\ UNCHANGED <<disk, slot, lock, hs, last, log, committed, qvars>>

\* an indexing loop that stops after the first term
CommittedDocsFirstTerm(t) == thr[t].data \cap TermDocs(1)

\* the documents index_writer.commit() makes visible (uwin.rs:171-182)
CommittedDocs(t) == thr[t].data

\* add_document for every tuple, commit, load_searchers (uwin.rs:171-193)
AddAndCommit(t) ==
    /\ Alive
    /\ thr[t].pc = "commit"
    /\ \E out \in {"ok", "commit_fail", "load_fail"} :
          /\ IF out = "commit_fail"
             THEN UNCHANGED <<disk, committed>>
             ELSE /\ disk' = [disk EXCEPT !.st = "committed", !.docs = CommittedDocs(t)]
                  /\ committed' = committed \cup {disk.gen}
          /\ IF out = "ok"
             THEN SetThread(t, [thr[t] EXCEPT !.pc = "ok",
                      !.idx = {[gen |-> disk.gen, docs |-> CommittedDocs(t)]}])
             ELSE Fail(t, OtherError)
    /\ UNCHANGED <<slot, lock, hs, last, log, failed, qvars>>

(***************************************************************************)
(* main (main.rs:42-64).                                                   *)
(***************************************************************************)
\* open() returned Ok: Client::new(..).expect(..) panics the main thread when
\* the client cannot be created; otherwise the index goes into the ShareMap
\* and the client starts (main.rs:52-61)
MainInsert ==
    /\ thr[0].pc = "ok"
    /\ \E created \in BOOLEAN :
          IF created
          THEN /\ slot' = thr[0].idx
               /\ SetThread(0, [IdleThread EXCEPT !.pc = "serving"])
               /\ UNCHANGED log
          ELSE /\ thr' = [t \in Threads |->
                            [IdleThread EXCEPT !.pc = IF t = 0 THEN "dead" ELSE "unused"]]
               /\ log' = log \cup {"main panic"}
               /\ UNCHANGED slot
    /\ UNCHANGED <<disk, lock, hs, last, committed, failed, qvars>>

\* client.start() returns: an Err is logged, an Ok(()) is not; in both cases
\* main returns and the process ends, its handler and build threads stop
\* where they are (main.rs:61-64)
ClientStop ==
    /\ Serving
    /\ thr' = [thr EXCEPT ![0] = [@ EXCEPT !.pc = "dead"]]
    /\ \E started \in BOOLEAN :
          log' = IF started THEN log ELSE log \cup {"client error"}
    /\ UNCHANGED <<disk, slot, lock, hs, last, committed, failed, qvars>>

\* open() returned Err: expect() panics the main thread, the process ends
MainPanic ==
    /\ thr[0].pc = "err"
    /\ log' = log \cup {"main panic"}
    /\ thr' = [t \in Threads |-> [IdleThread EXCEPT !.pc = IF t = 0 THEN "dead" ELSE "unused"]]
    /\ UNCHANGED <<disk, slot, lock, hs, last, committed, failed, qvars>>

(***************************************************************************)
(* CourseIndex::query (uwin.rs:197-235).                                   *)
(***************************************************************************)
\* the literals of the user's text: QueryParser splits it at whitespace
Literals(text) == Runs(text, 1, <<>>, {" "})

Chars(s) == {s[i] : i \in 1..Len(s)}

\* the fields of the schema (uwin.rs:136-139)
FieldTerm == <<"t", "e", "r", "m">>
FieldCode == <<"c", "o", "d", "e">>
FieldTitle == <<"t", "i", "t", "l", "e">>
FieldDescription == <<"d", "e", "s", "c", "r", "i", "p", "t", "i", "o", "n">>
SchemaFields == {FieldTerm, FieldCode, FieldTitle, FieldDescription}

\* a literal of the form field:value: the places of the colon that follows
\* a run of alphanumeric characters and is followed by a value
Colons(w) ==
    {i \in 2..(Len(w) - 1) : w[i] = ":" /\ \A j \in 1..(i - 1) : w[j] \notin Punct}

HasField(w) == Colons(w) # {}
FieldName(w) == SubSeq(w, 1, (CHOOSE i \in Colons(w) : TRUE) - 1)
FieldValue(w) == SubSeq(w, (CHOOSE i \in Colons(w) : TRUE) + 1, Len(w))

\* the number of double quotes of a text
Quotes(text) == Cardinality({i \in 1..Len(text) : text[i] = "\""})

\* parse_query fails on a text the grammar rejects (a phrase whose closing
\* quote is missing) and on a literal whose field prefix names no field of
\* the schema; the error is wrapped in QueryError (uwin.rs:199-202)
ParseFails(text) ==
    \/ Quotes(text) % 2 = 1
    \/ \E i \in 1..Len(Literals(text)) :
          /\ HasField(Literals(text)[i])
          /\ FieldName(Literals(text)[i]) \notin SchemaFields

\* the characters of a stored term code
TermChars(term) ==
    IF term = TermCode(1)
    THEN <<"2", "0", "1", "8", "5">>
    ELSE IF \E t \in TermIds : TermCode(t) = term
    THEN <<"2", "0", "1", "9", ToString(CHOOSE t \in TermIds : TermCode(t) = term)>>
    ELSE <<>>

\* a quoted word is searched without its quotes
Unquote(w) ==
    IF Len(w) >= 3 /\ w[1] = "\"" /\ w[Len(w)] = "\""
    THEN SubSeq(w, 2, Len(w) - 1)
    ELSE w

\* a literal with a field prefix is matched against that field only
FieldMatches(d, f, v) ==
    CASE f = FieldCode -> PhraseIn(Ngrams(v), Ngrams(d.code))
      [] f = FieldTitle -> PhraseIn(Ngrams(v), Ngrams(d.title))
      [] f = FieldDescription -> PhraseIn(Words(v), Words(d.description))
      [] OTHER -> v # <<>> /\ TermChars(d.term) = v

\* a literal that matches as soon as one of its 3-grams occurs in the field
LiteralMatchesAnyGram(d, w) ==
    \/ \E i \in 1..Len(Ngrams(w)) : PhraseIn(<<Ngrams(w)[i]>>, Ngrams(d.code))
    \/ \E i \in 1..Len(Ngrams(w)) : PhraseIn(<<Ngrams(w)[i]>>, Ngrams(d.title))
    \/ PhraseIn(Words(w), Words(d.description))

\* one literal against one document: for each default field the literal is
\* tokenized with the field's tokenizer, and several tokens make a phrase
LiteralMatches(d, w) ==
    IF HasField(w)
    THEN FieldMatches(d, FieldName(w), FieldValue(w))
    ELSE \/ PhraseIn(Ngrams(w), Ngrams(d.code))
         \/ PhraseIn(Ngrams(w), Ngrams(d.title))
         \/ PhraseIn(Words(w), Words(d.description))

\* the user query: the literals are alternatives (uwin.rs:199-202)
UserMatches(d, text) ==
    \E i \in 1..Len(Literals(text)) : LiteralMatches(d, Unquote(Literals(text)[i]))

\* a query without the term clause
TermIgnored(d, term) == TRUE

\* the TermQuery on the untokenized term field (uwin.rs:205-208)
TermMatches(d, term) == d.term = term

\* BooleanQuery: Must user_query, Must term_query (uwin.rs:210-213)
Matching(docs, term, text) ==
    {d \in docs : UserMatches(d, text) /\ TermMatches(d, term)}

\* CoursePreview built from the stored fields (uwin.rs:222-232)
Preview(d) == [term |-> d.term, code |-> d.code, title |-> d.title]

\* a collector without a limit
TopSetsUnlimited(m) == {m}

\* TopCollector::with_limit(10): the documents that can be returned are any
\* TopLimit of the matching ones (which ones is up to the relevance score)
TopSets(m) ==
    IF Cardinality(m) <= TopLimit
    THEN {m}
    ELSE {s \in SUBSET m : Cardinality(s) = TopLimit}

\* the values query() can return: [err, hits].  The text is parsed first;
\* searcher.search and searcher.doc fail when the index storage cannot be
\* read (uwin.rs:217, 222)
QueryResults(docs, term, text, readable) ==
    IF ParseFails(text)
    THEN {[err |-> "QueryError", hits |-> {}]}
    ELSE IF ~readable
    THEN {[err |-> "SystemError", hits |-> {}]}
    ELSE {[err |-> "none", hits |-> {Preview(d) : d \in s}] :
             s \in TopSets(Matching(docs, term, text))}

\* texts and terms the commands of the model carry
TextCode == CourseCode(1)
TextMath == <<"m", "a", "t", "h">>
TextBad == <<"a", ":", "b">>
TextNone == <<"z", "z", "z">>
TextPrefix == <<"0", "3", "6", "0">>
TextField == <<"t", "i", "t", "l", "e", ":", "m", "a", "t", "h">>
TextQuote == <<"\"", "m", "a", "t">>
QueryTexts == {TextCode, TextMath, TextBad, TextNone, TextPrefix, TextField, TextQuote}
QueryTerms == {TermCode(t) : t \in TermIds} \cup {"19995"}
\* the texts of a direct query: the above and the code of every course
DirectTexts == QueryTexts \cup {CourseCode(c) : c \in 1..NumPool}

(***************************************************************************)
(* Scraper::scrape_full (uwin.rs:396-612).                                 *)
(***************************************************************************)
\* the required elements of the main detail page, in the order in which
\* scrape_full looks for them; each is named as its ParseError names it
MainElements ==
    <<"course title", "course details", "meets", "starts", "ends", "campus",
      "availability", "course_value", "date_drops_close", "course exam">>

\* the required elements of the instructor page (uwin.rs:554-573)
InstructorElements == <<"course instructors", "instructor name">>

Range(f) == {f[i] : i \in DOMAIN f}

\* the first element of order that the page lacks, "none" if it lacks none
FirstMissing(order, present) ==
    IF \A i \in DOMAIN order : order[i] \in present
    THEN "none"
    ELSE order[CHOOSE i \in DOMAIN order :
                   /\ order[i] \notin present
                   /\ \A j \in 1..(i - 1) : order[j] \in present]

\* the schedule shown on the main detail page (first div of the details tab)
PageMeets == "MWF 10:00"
\* the schedule of the course's row in the portal's "other sections" listing
RowMeets == "TTh 13:00"

\* the course whose details are scraped
DetailCode == CourseCode(1)

NoDetail == [pc |-> "start", reqs |-> <<>>, res |-> "none", err |-> "none", meets |-> "none"]

\* scrape_full returns Err(e)
DetailErr(e) == [dOut EXCEPT !.pc = "done", !.res = "err", !.err = e]

\* the main request and the extraction of its fields (uwin.rs:405-538)
ScrapeFullMain ==
    /\ dOut.pc = "start"
    /\ dOut' = [(IF ~dIn.net1
                 THEN DetailErr("transport")
                 ELSE IF FirstMissing(MainElements, dIn.main) # "none"
                 THEN DetailErr(FirstMissing(MainElements, dIn.main))
                 ELSE [dOut EXCEPT !.pc = "main", !.meets = PageMeets])
                EXCEPT !.reqs = Append(dOut.reqs, "main")]
    /\ UNCHANGED <<lvars, qIn, qOut, dIn>>

\* the instructor request, the extraction of the instructors and the
\* Course that is returned (uwin.rs:540-611)
ScrapeFullInstructors ==
    /\ dOut.pc = "main"
    /\ dOut' = [(IF ~dIn.net2
                 THEN DetailErr("transport")
                 ELSE IF FirstMissing(InstructorElements, dIn.instructors) # "none"
                 THEN DetailErr(FirstMissing(InstructorElements, dIn.instructors))
                 ELSE [dOut EXCEPT !.pc = "done", !.res = "ok"])
                EXCEPT !.reqs = Append(dOut.reqs, "instructors")]
    /\ UNCHANGED <<lvars, qIn, qOut, dIn>>

\* the pages of a request: all required elements but at most MaxMissing,
\* or none of them
Pages(order) ==
    {Range(order) \ m : m \in {x \in SUBSET Range(order) : Cardinality(x) <= MaxMissing}}
        \cup {{}}

\* the rows of the "other sections" listing: [code, meets]
SectionRows ==
    SUBSET {[code |-> DetailCode, meets |-> RowMeets],
            [code |-> CourseCode(2), meets |-> PageMeets]}

\* what the portal holds for the course: whether each request is answered,
\* the elements of the two pages, whether the detail page carries the
\* portal's error marker, and the other-sections listing
DetailInputs ==
    [net1 : BOOLEAN, marker : BOOLEAN, main : Pages(MainElements),
     net2 : BOOLEAN, instructors : Pages(InstructorElements), rows : SectionRows]

NoDetailInput ==
    [net1 |-> TRUE, marker |-> FALSE, main |-> Range(MainElements),
     net2 |-> TRUE, instructors |-> Range(InstructorElements), rows |-> {}]

(***************************************************************************)
(* Handler::reindex (main.rs:280-316) and the thread it spawns.            *)
(***************************************************************************)
\* a reindex that takes every request for the first one
NeverReindexing == FALSE

\* data.remove::<CourseIndex>().is_none() (main.rs:291-292)
AlreadyReindexing == slot = {}

\* a reindex that reads the entry and leaves it in the map
SlotKept == slot

\* the slot once data.remove::<CourseIndex>() has run (main.rs:291)
SlotAfterRemove == {}

\* the build thread a reindex request spawns: the lowest free thread
\* a reindex that does not take the lock of the shared data
ReindexNoLock == TRUE

\* ctx.data.lock() of reindex (main.rs:288): the mutex is free
ReindexLock == lock = 0

FreeBuilder == CHOOSE t \in Builders : ~Active(t) /\ \A u \in Builders : u < t => Active(u)

\* what a command writes to the log: the warn! of a QueryError
\* (main.rs:144) and the error! of message() for an Err (main.rs:351)
Logged(r) ==
    (IF r.qerr = "QueryError" THEN {"warn"} ELSE {})
        \cup (IF r.ret = "Err" THEN {"command error"} ELSE {})

Return(h, r) ==
    /\ hs' = [hs EXCEPT ![h] = IdleHandler]
    /\ last' = r
    /\ log' = log \cup Logged(r)

\* ~reindex from a member: admin says whether the member is an administrator
Reindex(h, admin) ==
    /\ Serving
    /\ hs[h].pc = "idle"
    /\ IF ~admin
       THEN /\ Return(h, [NoOutcome EXCEPT !.cmd = "reindex", !.ret = "Ok"])
            /\ UNCHANGED <<slot, thr>>
       ELSE /\ ReindexLock
            /\ IF AlreadyReindexing
               THEN /\ Return(h, [NoOutcome EXCEPT !.cmd = "reindex", !.ret = "Ok",
                                     !.already = TRUE])
                    /\ UNCHANGED <<slot, thr>>
               ELSE /\ \E t \in Builders : ~Active(t)
                    /\ disk.gen < MaxBuilds
                    /\ slot' = SlotAfterRemove
                    /\ SetThread(FreeBuilder, [IdleThread EXCEPT !.pc = "rmdir"])
                    /\ Return(h, [NoOutcome EXCEPT !.cmd = "reindex", !.ret = "Ok",
                                     !.started = TRUE])
    /\ UNCHANGED <<disk, lock, committed, failed, qvars>>

\* fs::remove_dir_all("./index").expect(..) in the build thread (main.rs:301)
RemoveDir(t) ==
    /\ Alive
    /\ t \in Builders
    /\ thr[t].pc = "rmdir"
    /\ \E out \in {"ok", "fail", "partial"} :
          /\ disk' = CASE out = "ok" -> [disk EXCEPT !.st = "absent", !.docs = {}]
                       [] out = "fail" -> disk
                       [] OTHER -> [disk EXCEPT !.st = "dir", !.docs = {}]
          /\ IF out = "ok"
             THEN /\ SetThread(t, OpenThread)
                  /\ UNCHANGED log
             ELSE /\ SetThread(t, IdleThread)
                  /\ log' = log \cup {"thread panic"}
    /\ UNCHANGED <<slot, lock, hs, last, committed, failed, qvars>>

\* a build thread that inserts the index it created before the commit
PublishEarly(t) ==
    /\ Alive
    /\ t \in Builders
    /\ thr[t].pc \in {"commit", "ok"}
    /\ lock = 0
    /\ slot' = {[gen |-> disk.gen, docs |-> disk.docs]}
    /\ SetThread(t, IdleThread)
    /\ UNCHANGED <<disk, lock, hs, last, log, committed, failed, qvars>>

\* Ok(index) => data.lock().insert(index) (main.rs:305-308)
Publish(t) ==
    /\ Alive
    /\ t \in Builders
    /\ thr[t].pc = "ok"
    /\ lock = 0
    /\ slot' = thr[t].idx
    /\ SetThread(t, IdleThread)
    /\ UNCHANGED <<disk, lock, hs, last, log, committed, failed, qvars>>

\* a build thread that drops the error of open()
BuildErrorSilent(t) ==
    /\ Alive
    /\ t \in Builders
    /\ thr[t].pc = "err"
    /\ SetThread(t, IdleThread)
    /\ UNCHANGED <<disk, slot, lock, hs, last, log, committed, failed, qvars>>

\* Err(e) => error!("Error while indexing: {}", e) (main.rs:309)
BuildError(t) ==
    /\ Alive
    /\ t \in Builders
    /\ thr[t].pc = "err"
    /\ log' = log \cup {"error"}
    /\ SetThread(t, IdleThread)
    /\ UNCHANGED <<disk, slot, lock, hs, last, committed, failed, qvars>>

(***************************************************************************)
(* Handler::fetch_course and Handler::message (main.rs:70-278, 324-356).   *)
(***************************************************************************)
\* what message() makes of the command's result (main.rs:350-355)
Finish(h, ret, reply) ==
    Return(h, [NoOutcome EXCEPT !.cmd = "course", !.ret = ret,
                  !.reply = IF ret = "Err" THEN "Internal error." ELSE reply])

\* ~course -h, or -s with a semester that does not parse (main.rs:74-111)
FetchUsage(h, arg) ==
    /\ Serving
    /\ hs[h].pc = "idle"
    /\ \E sent \in BOOLEAN :
          IF sent
          THEN Finish(h, "Ok", IF arg = "-h" THEN "usage" ELSE "Semester selection is invalid.")
          ELSE Finish(h, "Err", "none")
    /\ UNCHANGED <<disk, slot, lock, thr, committed, failed, qvars>>

\* a fetch_course that reports the missing index as an error
FetchStartStrict(h) ==
    /\ Serving
    /\ hs[h].pc = "idle"
    /\ lock = 0
    /\ IF slot = {}
       THEN /\ Finish(h, "Err", "none")
            /\ UNCHANGED lock
       ELSE /\ lock' = h
            /\ hs' = [hs EXCEPT ![h] = [IdleHandler EXCEPT !.pc = "locked", !.idx = slot]]
            /\ UNCHANGED <<last, log>>
    /\ UNCHANGED <<disk, slot, thr, committed, failed, qvars>>

\* ctx.data.lock() and data.get::<CourseIndex>() (main.rs:125-130)
FetchStart(h) ==
    /\ Serving
    /\ hs[h].pc = "idle"
    /\ lock = 0
    /\ IF slot = {}
       THEN /\ Finish(h, "Ok", "none")
            /\ UNCHANGED lock
       ELSE /\ lock' = h
            /\ hs' = [hs EXCEPT ![h] = [IdleHandler EXCEPT !.pc = "locked", !.idx = slot]]
            /\ UNCHANGED <<last, log>>
    /\ UNCHANGED <<disk, slot, thr, committed, failed, qvars>>

\* the index a handler holding the lock queries
IndexOf(h) == CHOOSE i \in hs[h].idx : TRUE

\* a dispatcher that propagates every error of index.query
DispatchAllErrors(err, sent) == [ret |-> "Err", reply |-> "none"]

\* what fetch_course returns for an error of index.query: a QueryError is
\* answered in the chat, every other error is returned (main.rs:139-155)
Dispatch(err, sent) ==
    IF err = "QueryError" /\ sent
    THEN [ret |-> "Ok", reply |-> "Query is invalid."]
    ELSE [ret |-> "Err", reply |-> "none"]

\* broadcast_typing and index.query(&term, &query) (main.rs:134-156)
FetchQuery(h, term, text) ==
    /\ Alive
    /\ hs[h].pc = "locked"
    /\ \E typed \in BOOLEAN, readable \in BOOLEAN, sent \in BOOLEAN :
       \E r \in QueryResults(IndexOf(h).docs, term, text, readable) :
          IF ~typed
          THEN /\ Return(h, [NoOutcome EXCEPT !.cmd = "course", !.ret = "Err",
                                 !.reply = "Internal error.", !.chat = FALSE])
               /\ lock' = 0
          ELSE IF r.err # "none"
          THEN /\ Return(h, [NoOutcome EXCEPT
                                 !.cmd = "course",
                                 !.ret = Dispatch(r.err, sent).ret,
                                 !.reply = IF Dispatch(r.err, sent).ret = "Err"
                                           THEN "Internal error."
                                           ELSE Dispatch(r.err, sent).reply,
                                 !.qerr = r.err,
                                 !.chat = (r.err # "QueryError" \/ sent)])
               /\ lock' = 0
          ELSE /\ hs' = [hs EXCEPT ![h] = [@ EXCEPT !.pc = "queried", !.hits = r.hits]]
               /\ UNCHANGED <<lock, last, log>>
    /\ UNCHANGED <<disk, slot, thr, committed, failed, qvars>>

\* sort, then by the number of previews: no preview and several previews
\* are answered with one message, one preview is scraped in full first
\* (main.rs:158-166, 250-277)
FetchReply(h) ==
    /\ Alive
    /\ hs[h].pc = "queried"
    /\ IF Cardinality(hs[h].hits) = 1
       THEN /\ hs' = [hs EXCEPT ![h] = [@ EXCEPT !.pc = "scraping"]]
            /\ UNCHANGED <<lock, last, log>>
       ELSE /\ \E sent \in BOOLEAN :
                  IF ~sent
                  THEN Finish(h, "Err", "none")
                  ELSE Finish(h, "Ok", IF hs[h].hits = {} THEN "No course found."
                                                         ELSE "Top 10 Results")
            /\ lock' = 0
    /\ UNCHANGED <<disk, slot, thr, committed, failed, qvars>>

\* course.scrape()? and the embed with the course (main.rs:167-249); the
\* lock taken at main.rs:126 is released when fetch_course returns
FetchScrape(h) ==
    /\ Alive
    /\ hs[h].pc = "scraping"
    /\ \E scraped \in BOOLEAN, sent \in BOOLEAN :
          IF scraped /\ sent
          THEN Finish(h, "Ok", "course")
          ELSE Finish(h, "Err", "none")
    /\ lock' = 0
    /\ UNCHANGED <<disk, slot, thr, committed, failed, qvars>>

(***************************************************************************)
(* The process is killed or exits and is started again; ./index persists.  *)
(***************************************************************************)
Restart ==
    /\ disk.st = "absent" => disk.gen < MaxBuilds
    /\ thr' = [t \in Threads |-> IF t = 0 THEN OpenThread ELSE IdleThread]
    /\ hs' = [h \in Handlers |-> IdleHandler]
    /\ last' = NoOutcome
    /\ slot' = {}
    /\ lock' = 0
    /\ log' = {}
    /\ UNCHANGED <<disk, committed, failed, qvars>>

(***************************************************************************)
(* A direct call of CourseIndex::query on an index that holds qIn.docs.    *)
(***************************************************************************)
QueryCall ==
    /\ qOut.state = "idle"
    /\ \E r \in QueryResults(qIn.docs, qIn.term, qIn.text, qIn.readable) :
          qOut' = [state |-> "done", err |-> r.err, hits |-> r.hits]
    /\ UNCHANGED <<lvars, qIn, dIn, dOut>>

NoQuery == [state |-> "idle", err |-> "none", hits |-> {}]

(***************************************************************************)
(* Specifications.                                                         *)
(***************************************************************************)
\* ./index is absent, or holds the committed index of an earlier run
StoredDisk == [st |-> "committed", gen |-> 1, docs |-> Corpus]

InitLifecycle ==
    /\ disk \in {AbsentDisk, StoredDisk}
    /\ committed = IF disk.st = "committed" THEN {disk.gen} ELSE {}
    /\ failed = {}
    /\ slot = {}
    /\ lock = 0
    /\ thr = [t \in Threads |-> IF t = 0 THEN OpenThread ELSE IdleThread]
    /\ hs = [h \in Handlers |-> IdleHandler]
    /\ last = NoOutcome
    /\ log = {}

Init ==
    /\ InitLifecycle
    /\ qIn = [docs |-> {}, term |-> "", text |-> <<>>, readable |-> TRUE]
    /\ qOut = NoQuery
    /\ dIn = NoDetailInput
    /\ dOut = [NoDetail EXCEPT !.pc = "unused"]

Next ==
    \/ \E t \in Threads : OpenExisting(t)
    \/ \E t \in Threads : OpenCreate(t)
    \/ \E t \in Threads : ScrapeTermList(t)
    \/ \E t \in Threads : ScrapeCourseList(t)
    \/ \E t \in Threads, c \in CourseIds : TaskStart(t, c)
    \/ \E t \in Threads, c \in CourseIds, ok \in BOOLEAN : TaskFinish(t, c, ok)
    \/ \E t \in Threads, c \in CourseIds : TaskSkip(t, c)
    \/ \E t \in Threads : ScrapeCoursesDone(t)
    \/ \E t \in Threads : AddAndCommit(t)
    \/ MainInsert
    \/ MainPanic
    \/ ClientStop
    \/ \E h \in Handlers, admin \in BOOLEAN : Reindex(h, admin)
    \/ \E t \in Builders : RemoveDir(t)
    \/ \E t \in Builders : Publish(t)
    \/ \E t \in Builders : BuildError(t)
    \/ \E h \in Handlers, arg \in {"-h", "-s"} : FetchUsage(h, arg)
    \/ \E h \in Handlers : FetchStart(h)
    \/ \E h \in Handlers, term \in QueryTerms, text \in QueryTexts : FetchQuery(h, term, text)
    \/ \E h \in Handlers : FetchReply(h)
    \/ \E h \in Handlers : FetchScrape(h)

\* one run of the process
Spec == Init /\ [][Next]_vars

\* runs of the process over the same ./index directory
NextRestart == Next \/ Restart

SpecRestart == Init /\ [][NextRestart]_vars

\* CourseIndex::query as a function of the indexed documents
InitQuery ==
    /\ disk = AbsentDisk
    /\ committed = {}
    /\ failed = {}
    /\ slot = {}
    /\ lock = 0
    /\ thr = [t \in Threads |-> IdleThread]
    /\ hs = [h \in Handlers |-> IdleHandler]
    /\ last = NoOutcome
    /\ log = {}
    /\ qIn \in [docs : (SUBSET Corpus) \cup {PoolDocs(n) : n \in 0..NumPool},
                term : QueryTerms, text : DirectTexts, readable : BOOLEAN]
    /\ qOut = NoQuery
    /\ dIn = NoDetailInput
    /\ dOut = [NoDetail EXCEPT !.pc = "unused"]

NextQuery == QueryCall

SpecQuery == InitQuery /\ [][NextQuery]_vars

\* Scraper::scrape_full as a function of what the portal answers
InitDetail ==
    /\ disk = AbsentDisk
    /\ committed = {}
    /\ failed = {}
    /\ slot = {}
    /\ lock = 0
    /\ thr = [t \in Threads |-> IdleThread]
    /\ hs = [h \in Handlers |-> IdleHandler]
    /\ last = NoOutcome
    /\ log = {}
    /\ qIn = [docs |-> {}, term |-> "", text |-> <<>>, readable |-> TRUE]
    /\ qOut = [NoQuery EXCEPT !.state = "unused"]
    /\ dIn \in DetailInputs
    /\ dOut = NoDetail

NextDetail == ScrapeFullMain \/ ScrapeFullInstructors

SpecDetail == InitDetail /\ [][NextDetail]_vars

(***************************************************************************)
(* Properties.                                                             *)
(***************************************************************************)
ActiveBuilders == {t \in Builders : Active(t)}

\* the indexes a query can run against: the one in the slot and the ones
\* handlers took from it
Queryable == slot \cup UNION {hs[h].idx : h \in Handlers}

\* threads that are building a new index and have not committed it
Building(t) == thr[t].pc \in {"scrape", "courselist", "fanout", "commit"}

\* C1: at most one build thread exists at any time, and a reindex request
\* of an administrator that finds the slot empty reports "already
\* reindexing", spawns no thread and touches neither slot nor storage.
C1_OneRebuildInFlight ==
    /\ [](Cardinality(ActiveBuilders) <= 1)
    /\ [][\A h \in Handlers :
            (Reindex(h, TRUE) /\ slot = {}) =>
                /\ last'.already /\ ~last'.started /\ last'.ret = "Ok"
                /\ thr' = thr /\ disk' = disk /\ slot' = {}]_vars

\* a reindex request was refused while a build thread was running
C1_Witness ==
    /\ last.cmd = "reindex" /\ last.already
    /\ \E t \in Builders : Building(t)

\* C2: an index that a query finds in the slot is the complete committed
\* corpus of one finished build, never the index of a build in progress.
C2_QuerySeesCommittedSnapshot ==
    \A i \in Queryable :
        /\ i.gen \in committed
        /\ i.docs = Corpus
        /\ \A t \in Threads : Building(t) => disk.gen # i.gen

\* a query ran against the snapshot a rebuild published
C2_Witness ==
    \E h \in Handlers :
        /\ hs[h].pc = "queried"
        /\ hs[h].hits # {}
        /\ IndexOf(h).gen = 2
        /\ 1 \in committed

\* C3 as stated: while a build thread runs, the old index is still in the
\* slot and answers queries.
C3_OldIndexServesDuringRebuild ==
    (\E t \in Builders : Active(t)) => slot # {}

\* C3 amended: while a build thread runs the slot is empty and the mutex is
\* free, so a query returns at once without an answer; the slot is filled
\* again only by the build thread inserting the index its open() returned.
C3_SlotEmptyDuringRebuild ==
    /\ []((\E t \in Builders : Active(t)) =>
            /\ slot = {}
            /\ lock = 0
            /\ \A h \in Handlers : hs[h].pc = "idle")
    /\ [][(slot = {} /\ slot' # {} /\ Serving) =>
            \E t \in Builders :
                /\ thr[t].pc = "ok"
                /\ slot' = thr[t].idx
                /\ \A i \in slot' : i.gen \in committed]_vars

\* a query command returned without an answer while a build was scraping
C3_Witness ==
    /\ \E t \in Builders : thr[t].pc = "fanout"
    /\ last.cmd = "course" /\ last.ret = "Ok" /\ last.reply = "none"

\* C4: once a rebuild has failed and the slot is empty with no build thread
\* left, a reindex request of an administrator starts a new build thread;
\* and a build thread whose open() succeeded publishes its index.
C4_ReindexAfterFailureRebuilds ==
    /\ [][\A h \in Handlers :
            (Reindex(h, TRUE) /\ slot = {} /\ ActiveBuilders = {} /\ "error" \in log) =>
                \E t \in Builders : thr'[t].pc = "rmdir"]_vars
    /\ [][\A t \in Builders :
            (thr[t].pc = "ok" /\ thr'[t].pc = "unused") => slot' = thr[t].idx]_vars

\* C5: a build thread that fails while deleting the storage panics alone;
\* one whose open() fails logs the error; in both cases the process lives
\* on, the slot stays empty and nothing is published.
C5_FailedRebuildLeavesSlotEmpty ==
    [][\A t \in Builders :
        /\ (thr[t].pc = "rmdir" /\ thr'[t].pc = "unused") =>
              ("thread panic" \in log' /\ slot' = {} /\ Alive')
        /\ (thr[t].pc # "err" /\ thr'[t].pc = "err") =>
              (thr'[t].idx = {} /\ slot' = {} /\ Alive')
        /\ (thr[t].pc = "err" /\ thr'[t] # thr[t]) =>
              /\ thr'[t].pc = "unused"
              /\ "error" \in log'
              /\ slot' = {}
              /\ Alive']_vars

\* a rebuild failed on a basic scrape, was logged, and the bot serves on
\* with an empty slot
C5_Witness ==
    /\ Serving
    /\ "error" \in log
    /\ disk.gen \in failed
    /\ slot = {}
    /\ ActiveBuilders = {}

\* C6: a query command that finds the slot empty returns Ok without
\* running a query or sending a message, and changes nothing else.
C6_QueryOnEmptySlotIsNoOp ==
    [][\A h \in Handlers :
        (FetchStart(h) /\ slot = {}) =>
            /\ last' = [NoOutcome EXCEPT !.cmd = "course", !.ret = "Ok"]
            /\ hs'[h] = IdleHandler
            /\ slot' = {}
            /\ lock' = lock
            /\ disk' = disk
            /\ thr' = thr
            /\ log' = log]_vars

\* a query command was a no-op while the build thread had yet to delete
\* the old storage
C6_Witness ==
    /\ last = [NoOutcome EXCEPT !.cmd = "course", !.ret = "Ok"]
    /\ slot = {}
    /\ \E t \in Builders : thr[t].pc = "rmdir"

\* C7: when the basic scrape of a course fails, open() returns an error
\* without an index and commits nothing, and no index of the failed build
\* that lacks part of the corpus is queryable later, also after a later
\* open() of the same storage.
C7_FailedBuildNeverQueryable ==
    /\ \A t \in Threads :
          (thr[t].pc = "err" /\ thr[t].err > 0) =>
              (thr[t].idx = {} /\ disk.gen \notin committed)
    /\ \A i \in Queryable : ~(i.gen \in failed /\ i.docs # Corpus)

\* C8: open() returns Ok with the stored index and without a portal request
\* when ./index exists; on the build path it returns Ok only after every
\* scraped tuple is committed; a failure returns no index.
C8_OpenLoadsOrBuilds ==
    \A t \in Threads :
        /\ thr[t].pc = "ok" =>
              /\ thr[t].idx = {[gen |-> disk.gen, docs |-> disk.docs]}
              /\ IF thr[t].exists
                 THEN ~thr[t].net /\ thr[t].data = {}
                 ELSE /\ thr[t].net
                      /\ disk.st = "committed"
                      /\ disk.gen \in committed
                      /\ disk.docs = Corpus
        /\ thr[t].pc = "err" => thr[t].idx = {}
        /\ (thr[t].pc = "err" /\ thr[t].exists) => ~thr[t].net
        /\ Building(t) => (thr[t].idx = {} /\ ~thr[t].exists)

\* a build thread's open() built and committed the whole corpus
C8_Witness ==
    \E t \in Builders :
        /\ thr[t].pc = "ok"
        /\ ~thr[t].exists
        /\ thr[t].net
        /\ disk.docs = Corpus

\* the task that failed first in completion order (0 when none failed)
FirstFailed(t) ==
    LET o == thr[t].order
        ks == {k \in 1..Len(o) : thr[t].tasks[o[k]] = "err"}
    IN  IF ks = {} THEN 0 ELSE o[CHOOSE k \in ks : \A j \in ks : k <= j]

\* C9 as stated: no task of a term is skipped after a sibling failed, and
\* the error returned is the one of the task that failed first.
C9_EveryTaskRuns ==
    \A t \in Threads :
        /\ \A c \in CourseIds : thr[t].tasks[c] # "skipped"
        /\ (thr[t].pc = "err" /\ thr[t].err > 0) => thr[t].err = FirstFailed(t)

\* C9 amended: a task that has started always finishes and the call waits
\* for it, but tasks not yet started when an error is stored may be skipped;
\* a call with a failed task returns the error of one of the tasks that
\* failed (which one is not determined when several fail) and none of the
\* term's results; it returns the full list only when every task ran and
\* succeeded.
C9_StartedTasksFinish ==
    /\ [](\A t \in Threads :
            /\ (thr[t].pc = "err" /\ thr[t].err > 0) =>
                  /\ thr[t].tasks[thr[t].err] = "err"
                  /\ thr[t].data \cap TermDocs(thr[t].term) = {}
            /\ \A c \in CourseIds :
                  thr[t].tasks[c] = "skipped" => FirstFailed(t) # 0)
    /\ [][\A t \in Threads :
            /\ \A c \in CourseIds :
                  thr[t].tasks[c] = "running" =>
                      thr'[t].tasks[c] \in {"running", "ok", "err"}
            /\ (thr[t].pc = "fanout" /\ thr'[t].pc # "fanout") =>
                  /\ \A c \in CourseIds : thr[t].tasks[c] \in {"ok", "err", "skipped"}
                  /\ FirstFailed(t) # 0 =>
                        /\ thr'[t].pc = "err"
                        /\ thr'[t].err \in {c \in CourseIds : thr[t].tasks[c] = "err"}
                        /\ thr'[t].data = thr[t].data
                  /\ thr'[t].pc # "err" =>
                        /\ \A c \in CourseIds : thr[t].tasks[c] = "ok"
                        /\ thr'[t].data = thr[t].data \cup TermDocs(thr[t].term)]_vars

\* scrape_courses returned the error of course 2 and never ran course 1
C9_Witness ==
    \E t \in Threads :
        /\ thr[t].pc = "err"
        /\ thr[t].err = 2
        /\ thr[t].tasks[1] = "skipped"

\* C10: every preview query(term, text) returns has that term, and a term
\* no indexed document has yields no preview.
C10_TermFilter ==
    qOut.state = "done" =>
        /\ \A p \in qOut.hits : p.term = qIn.term
        /\ (\A d \in qIn.docs : d.term # qIn.term) => qOut.hits = {}

\* a query returned previews although the text also matches a document of
\* another term
C10_Witness ==
    /\ qOut.state = "done"
    /\ qOut.hits # {}
    /\ \E d \in qIn.docs : d.term # qIn.term /\ UserMatches(d, qIn.text)

(***************************************************************************)
(* C11: a query never returns more than 10 previews, whatever the number   *)
(* of indexed documents and of documents that match.                       *)
(***************************************************************************)
C11_AtMostTenPreviews ==
    qOut.state = "done" => Cardinality(qOut.hits) <= TopLimit

\* more than ten documents match and ten previews came back
C11_Witness ==
    /\ qOut.state = "done"
    /\ Cardinality(Matching(qIn.docs, qIn.term, qIn.text)) > TopLimit
    /\ Cardinality(qOut.hits) = TopLimit

(***************************************************************************)
(* C12: a query for the code of a course of the index, filtered by the     *)
(* course's term, returns exactly one preview, with that code and that     *)
(* term, also when other courses of the term share 3-grams with the code   *)
(* (the index storage being readable).                                     *)
(***************************************************************************)
C12_CodeQueryFindsTheCourse ==
    \A d \in qIn.docs :
        (qOut.state = "done" /\ qIn.readable /\ qIn.term = d.term /\ qIn.text = d.code)
            => /\ qOut.err = "none"
               /\ qOut.hits = {Preview(d)}
               /\ \A p \in qOut.hits : p.code = qIn.text /\ p.term = qIn.term

\* the course was found in an index that holds another course of the same
\* term whose code shares a 3-gram with the queried code
C12_Witness ==
    /\ qOut.state = "done"
    /\ Cardinality(qOut.hits) = 1
    /\ \E d \in qIn.docs, o \in qIn.docs :
          /\ qIn.term = d.term /\ qIn.text = d.code
          /\ o # d /\ o.term = d.term
          /\ \E i \in 1..Len(Ngrams(d.code)) :
                PhraseIn(<<Ngrams(d.code)[i]>>, Ngrams(o.code))

(***************************************************************************)
(* C13 as stated: a text the query parser rejects yields a QueryError,     *)
(* which the dispatcher answers with the "invalid query" chat message,     *)
(* returning success and never taking the "Internal error." path; every    *)
(* other failure of the query is returned as an error and answered         *)
(* "Internal error."; the active index and its storage are the same after  *)
(* the command in both cases.                                              *)
(***************************************************************************)
C13_QueryErrorNeverInternalError ==
    [][\A h \in Handlers :
          (hs[h].pc = "locked" /\ hs'[h].pc = "idle")
              => /\ slot' = slot /\ disk' = disk
                 /\ last'.qerr = "QueryError"
                        => last'.ret = "Ok" /\ last'.reply = "Query is invalid."
                 /\ last'.qerr = "SystemError"
                        => last'.ret = "Err" /\ last'.reply = "Internal error."]_vars

\* C13 amended: a QueryError is answered with the "invalid query" chat
\* message and the command returns success; only when the send of that
\* message fails does the command return an error and take the "Internal
\* error." path, as for every failed send; every other failure of the query
\* is returned as an error and answered "Internal error."; the "invalid
\* query" message is sent for a QueryError only; the active index and its
\* storage are the same after the command in every case.
C13_QueryErrorToldApart ==
    [][\A h \in Handlers :
          (hs[h].pc = "locked" /\ hs'[h].pc = "idle")
              => /\ slot' = slot /\ disk' = disk
                 /\ (last'.qerr = "QueryError" /\ last'.chat)
                        => last'.ret = "Ok" /\ last'.reply = "Query is invalid."
                 /\ (last'.qerr = "QueryError" /\ ~last'.chat)
                        => last'.ret = "Err" /\ last'.reply = "Internal error."
                 /\ last'.qerr = "SystemError"
                        => last'.ret = "Err" /\ last'.reply = "Internal error."
                 /\ last'.reply = "Query is invalid." => last'.qerr = "QueryError"]_vars

\* a rejected text was answered with the chat message, the index is in place
C13_Witness ==
    /\ last.cmd = "course" /\ last.qerr = "QueryError"
    /\ last.ret = "Ok" /\ last.reply = "Query is invalid."
    /\ slot # {}

(***************************************************************************)
(* C14: a detail scrape of a code the portal reports as nonexistent (the   *)
(* detail page carries the portal's error marker) returns an absent "not   *)
(* found" result and no error; a missing element is an extraction error    *)
(* only on a page without the marker.                                      *)
(***************************************************************************)
C14_MarkerPageIsNotFound ==
    /\ (dOut.pc = "done" /\ dIn.net1 /\ dIn.marker)
          => dOut.res = "absent" /\ dOut.err = "none"
    /\ (dOut.pc = "done" /\ dOut.err \in Range(MainElements))
          => ~dIn.marker

(***************************************************************************)
(* C15: a detail scrape issues exactly three portal requests, in the order *)
(* main detail page, instructor page, other-sections page, and a failure   *)
(* stops the later requests; the meets schedule of the result is that of   *)
(* the other-sections row with the requested code, and without such a row  *)
(* the call fails with an extraction error.                                *)
(***************************************************************************)
RequestOrder == <<"main", "instructors", "sections">>

C15_ThreeRequestsInOrder ==
    dOut.pc = "done" =>
        /\ Len(dOut.reqs) <= Len(RequestOrder)
        /\ dOut.reqs = SubSeq(RequestOrder, 1, Len(dOut.reqs))
        /\ dOut.res = "ok" =>
              /\ dOut.reqs = RequestOrder
              /\ \E r \in dIn.rows : r.code = DetailCode /\ dOut.meets = r.meets
        /\ (\A r \in dIn.rows : r.code # DetailCode) => dOut.res = "err"

(***************************************************************************)
(* C16: whenever ./index exists and no build is in progress, it holds the  *)
(* committed, complete corpus of a build that succeeded; so an open() that *)
(* loads the existing directory never returns an index that is empty or    *)
(* was never committed, also after an earlier build failed between         *)
(* creating the directory and committing.                                  *)
(***************************************************************************)
C16_DirectoryHoldsCommittedCorpus ==
    /\ (disk.st # "absent" /\ \A t \in Threads : ~Building(t))
          => /\ disk.st = "committed"
             /\ disk.gen \in committed
             /\ disk.docs = Corpus
    /\ \A t \in Threads :
          (thr[t].pc = "ok" /\ thr[t].exists)
              => \A i \in thr[t].idx : i.gen \in committed /\ i.docs # {}

(***************************************************************************)
(* C17: the index storage is deleted only after the index has left the     *)
(* slot and while no query or detail scrape on that index is executing: a  *)
(* query command holds the lock of the shared data from reading the slot   *)
(* until it returns, so a reindex can neither take the index out of the    *)
(* slot nor delete its storage in the middle of a query.                   *)
(***************************************************************************)
C17_NoDeletionUnderAQuery ==
    /\ \A t \in Builders :
          thr[t].pc = "rmdir" => slot = {} /\ \A h \in Handlers : hs[h].idx = {}
    /\ \A h \in Handlers :
          hs[h].pc \in {"locked", "queried", "scraping"}
              => /\ lock = h
                 /\ hs[h].idx # {}
                 /\ slot = hs[h].idx
                 /\ disk.st # "absent"
                 /\ \A i \in hs[h].idx : i.gen = disk.gen

\* a reindex took the index out of the slot and its build thread has
\* deleted the storage of that committed index; no handler is in a query
C17_Witness ==
    /\ last.cmd = "reindex" /\ last.started
    /\ disk.st = "absent" /\ disk.gen \in committed
    /\ slot = {}
    /\ \E t \in Builders : thr[t].pc = "open"
    /\ \A h \in Handlers : hs[h].pc = "idle" /\ hs[h].idx = {}

====
